---- MODULE Spec2Model ----
(***************************************************************************)
(* Model of src/src/vm/VM.c: a virtual machine for a 16-bit register       *)
(* architecture (LC-3).  One action per case of the opcode switch of       *)
(* main(); every action is one whole iteration of the execution loop:      *)
(* fetch, PC increment, the handler, and the restore_input_buffering()     *)
(* call that ends the loop body.                                           *)
(***************************************************************************)
EXTENDS Integers, Sequences, FiniteSets, TLC

VARIABLES
    mem,          \* u_int16_t mem[MEM_MAX]: the nonzero words, by address
    reg,          \* u_int16_t reg[R_COUNT]
    running,      \* int running (main)
    proc,         \* the process: "live", "abort", "segv", "sigint", "exit"
    tio,          \* c_lflag bits of the terminal on stdin
    original_tio, \* struct termios original_tio
    stdin,        \* characters the host will deliver on stdin, then end-of-stream
    instr,        \* u_int16_t instr of the last loop iteration (-1: none yet)
    lastread,     \* the getchar() call of the last loop iteration
    idxmax,       \* highest index of mem[] dereferenced in the last iteration
    steps,        \* loop iterations done
    arg,          \* arguments of a function called on its own (SpecSE, SpecUF)
    ret           \* the results of those calls, in order

vars == <<mem, reg, running, proc, tio, original_tio, stdin, instr, lastread,
          idxmax, steps, arg, ret>>

----------------------------------------------------------------------------
(* Bounds of the model *)

ProgLen == 2      \* words of program placed from PC_START
MaxSteps == 3     \* loop iterations explored
MaxImage == 2     \* words in the body of an image file given to read_image_file

----------------------------------------------------------------------------
(* Constants of VM.c *)

MEM_MAX == 65536
WORD == 65536            \* 2^16: range of uint16_t

R_R0 == 0
R_R7 == 7
R_PC == 8
R_COND == 9
R_COUNT == 10

OP_BR == 0
OP_ADD == 1
OP_LD == 2
OP_ST == 3
OP_JSR == 4
OP_AND == 5
OP_LDR == 6
OP_STR == 7
OP_RTI == 8
OP_NOT == 9
OP_LDI == 10
OP_STI == 11
OP_JMP == 12
OP_RES == 13
OP_LEA == 14
OP_TRAP == 15

FL_POS == 1
FL_ZRO == 2
FL_NEG == 4

TRAP_GETC == 32
TRAP_OUT == 33
TRAP_PUTS == 34
TRAP_IN == 35
TRAP_PUTSP == 36
TRAP_HALT == 37

MR_KBSR == 65024
MR_KBDR == 65026

PC_START == 12288

EOF == -1

ICANON == "ICANON"
ECHO == "ECHO"

----------------------------------------------------------------------------
(* C integer operators on non-negative integers *)

RECURSIVE BitAnd(_, _)
BitAnd(a, b) ==
    IF a = 0 \/ b = 0 THEN 0
    ELSE (IF a % 2 = 1 /\ b % 2 = 1 THEN 1 ELSE 0) + 2 * BitAnd(a \div 2, b \div 2)

RECURSIVE BitOr(_, _)
BitOr(a, b) ==
    IF a = 0 THEN b
    ELSE IF b = 0 THEN a
    ELSE (IF a % 2 = 1 \/ b % 2 = 1 THEN 1 ELSE 0) + 2 * BitOr(a \div 2, b \div 2)

Shr(x, n) == x \div (2 ^ n)
Shl(x, n) == x * (2 ^ n)

\* conversion to uint16_t on assignment
U16(x) == x % WORD

\* the low 16 bits of x << n, for 0 <= n <= 16
Shl16(x, n) == (x % (2 ^ (16 - n))) * (2 ^ n)

\* ~x on a uint16_t, stored back to a uint16_t
BitNot16(x) == (WORD - 1) - x

----------------------------------------------------------------------------
(* sign_extend *)

sign_extend_nofill(x, bit_count) == x

\* x |= (0xFFFF << bit_count) is computed in int and converted to uint16_t:
\* only the low 16 bits of the shifted mask reach x
sign_extend(x, bit_count) ==
    IF Shr(x, bit_count - 1) % 2 # 0
    THEN BitOr(x, Shl16(65535, bit_count))
    ELSE x

----------------------------------------------------------------------------
(* mem[] *)

MemAt(m, a) == IF a \in DOMAIN m THEN m[a] ELSE 0

MemStore(m, a, v) ==
    IF v = 0
    THEN [x \in (DOMAIN m) \ {a} |-> m[x]]
    ELSE [x \in (DOMAIN m) \cup {a} |-> IF x = a THEN v ELSE m[x]]

Max(a, b) == IF a >= b THEN a ELSE b

----------------------------------------------------------------------------
(* The host: stdin and the terminal *)

\* getchar(): the next character, or EOF once the stream has ended
getchar(s) ==
    IF s = << >> THEN [c |-> EOF, rest |-> << >>]
    ELSE [c |-> Head(s), rest |-> Tail(s)]

\* (uint16_t)getchar()
IntToU16(c) == IF c < 0 THEN c + WORD ELSE c

\* char c = getchar(); (uint16_t)c -- char is signed or unsigned by the build
CharToU16(c, signedChar) ==
    LET byte == IF c < 0 THEN c + 256 ELSE c % 256
    IN  IF signedChar /\ byte >= 128 THEN byte + (WORD - 256) ELSE byte

disable_input_buffering(orig) == orig \ {ICANON, ECHO}

NoRead == [by |-> "none", c |-> 0, lflag |-> {}]

----------------------------------------------------------------------------
(* The machine threaded through one loop iteration *)

Cur == [mem |-> mem, reg |-> reg, stdin |-> stdin, rd |-> NoRead, hi |-> -1,
        val |-> 0]

mem_write(c, address, v) ==
    [c EXCEPT !.mem = MemStore(c.mem, address, v), !.hi = Max(c.hi, address)]

mem_read_clears(c, address, ready) ==
    LET g == getchar(c.stdin)
        c1 == IF address # MR_KBSR THEN c
              ELSE IF ready
                   THEN [c EXCEPT
                           !.mem = MemStore(MemStore(c.mem, MR_KBSR, Shl(1, 15)),
                                            MR_KBDR, IntToU16(g.c)),
                           !.stdin = g.rest,
                           !.rd = [by |-> "KBSR", c |-> g.c, lflag |-> tio],
                           !.hi = Max(c.hi, MR_KBDR)]
                   ELSE [c EXCEPT !.mem = MemStore(c.mem, MR_KBSR, 0)]
    IN  [c1 EXCEPT !.val = MemAt(c1.mem, address), !.hi = Max(c1.hi, address),
                   !.mem = MemStore(c1.mem, address, 0)]

\* ready: the result of check_key() should this read poll the keyboard
mem_read(c, address, ready) ==
    LET g == getchar(c.stdin)
        c1 == IF address # MR_KBSR THEN c
              ELSE IF ready
                   THEN [c EXCEPT
                           !.mem = MemStore(MemStore(c.mem, MR_KBSR, Shl(1, 15)),
                                            MR_KBDR, IntToU16(g.c)),
                           !.stdin = g.rest,
                           !.rd = [by |-> "KBSR", c |-> g.c, lflag |-> tio],
                           !.hi = Max(c.hi, MR_KBDR)]
                   ELSE [c EXCEPT !.mem = MemStore(c.mem, MR_KBSR, 0)]
    IN  [c1 EXCEPT !.val = MemAt(c1.mem, address), !.hi = Max(c1.hi, address)]

update_flags_zp(c, r) ==
    [c EXCEPT !.reg[R_COND] =
        IF c.reg[r] = 0 THEN FL_ZRO + FL_POS
        ELSE IF Shr(c.reg[r], 15) # 0 THEN FL_NEG
        ELSE FL_POS]

update_flags_nz(c, r) ==
    [c EXCEPT !.reg[R_COND] =
        IF Shr(c.reg[r], 15) # 0 THEN FL_NEG ELSE FL_POS]

update_flags(c, r) ==
    [c EXCEPT !.reg[R_COND] =
        IF c.reg[r] = 0 THEN FL_ZRO
        ELSE IF Shr(c.reg[r], 15) # 0 THEN FL_NEG
        ELSE FL_POS]

SetReg(c, r, v) == [c EXCEPT !.reg[r] = v]

\* check_key(): what select() can answer a read of address; mem_read calls it
\* for MR_KBSR only
check_key(address) == IF address = MR_KBSR THEN BOOLEAN ELSE {FALSE}

\* FETCH: instr = mem_read(reg[R_PC]++)
Fetch(c, ready) ==
    LET f == mem_read(c, c.reg[R_PC], ready)
    IN  SetReg(f, R_PC, U16(c.reg[R_PC] + 1))

\* x & (2^n - 1): the low n bits of x
Low(x, n) == x % (2 ^ n)

Op(i) == Shr(i, 12)
F9(i) == Low(Shr(i, 9), 3)     \* (instr >> 9) & 0x7
F6(i) == Low(Shr(i, 6), 3)     \* (instr >> 6) & 0x7
F0(i) == Low(i, 3)             \* instr & 0x7

----------------------------------------------------------------------------
(* The handlers of the opcode switch; f is the machine after FETCH, i the   *)
(* fetched instruction, k/k2 the check_key() results of the handler's reads *)

do_ADD_noimm(f, i) ==
    LET r0 == F9(i)
        r1 == F6(i)
        r2 == F0(i)
    IN  update_flags(SetReg(f, r0, U16(f.reg[r1] + f.reg[r2])), r0)

do_ADD_zext(f, i) ==
    LET r0 == F9(i)
        r1 == F6(i)
        imm_flag == Low(Shr(i, 5), 1)
        imm5 == Low(i, 5)
        r2 == F0(i)
    IN  update_flags(
            SetReg(f, r0, IF imm_flag # 0 THEN U16(f.reg[r1] + imm5)
                                          ELSE U16(f.reg[r1] + f.reg[r2])),
            r0)

do_ADD(f, i) ==
    LET r0 == F9(i)
        r1 == F6(i)
        imm_flag == Low(Shr(i, 5), 1)
        imm5 == sign_extend(Low(i, 5), 5)
        r2 == F0(i)
    IN  update_flags(
            SetReg(f, r0, IF imm_flag # 0 THEN U16(f.reg[r1] + imm5)
                                          ELSE U16(f.reg[r1] + f.reg[r2])),
            r0)

do_AND(f, i) ==
    LET r0 == F9(i)
        r1 == F6(i)
        imm_flag == Low(Shr(i, 5), 1)
        imm5 == sign_extend(Low(i, 5), 5)
        r2 == F0(i)
    IN  update_flags(
            SetReg(f, r0, IF imm_flag # 0 THEN BitAnd(f.reg[r1], imm5)
                                          ELSE BitAnd(f.reg[r1], f.reg[r2])),
            r0)

do_NOT(f, i) ==
    LET r0 == F9(i)
        r1 == F6(i)
    IN  update_flags(SetReg(f, r0, BitNot16(f.reg[r1])), r0)

do_BR_unsigned(f, i) ==
    LET pc_offset == Low(i, 9)
        cond_flag == F9(i)
    IN  IF BitAnd(cond_flag, f.reg[R_COND]) # 0
        THEN SetReg(f, R_PC, U16(f.reg[R_PC] + pc_offset))
        ELSE f

do_BR(f, i) ==
    LET pc_offset == sign_extend(Low(i, 9), 9)
        cond_flag == F9(i)
    IN  IF BitAnd(cond_flag, f.reg[R_COND]) # 0
        THEN SetReg(f, R_PC, U16(f.reg[R_PC] + pc_offset))
        ELSE f

do_JMP(f, i) ==
    LET r1 == F6(i)
    IN  SetReg(f, R_PC, f.reg[r1])

do_JSR_long_only(f, i) ==
    LET long_flag == Low(Shr(i, 11), 1)
        long_pc_offset == sign_extend(Low(i, 11), 11)
        r1 == F6(i)
    IN  IF long_flag # 0
        THEN LET s == SetReg(f, R_R7, f.reg[R_PC])
             IN  SetReg(s, R_PC, U16(s.reg[R_PC] + long_pc_offset))
        ELSE SetReg(f, R_PC, f.reg[r1])

do_JSR_base_first(f, i) ==
    LET long_flag == Low(Shr(i, 11), 1)
        long_pc_offset == sign_extend(Low(i, 11), 11)
        r1 == F6(i)
        base == f.reg[r1]
        s == SetReg(f, R_R7, f.reg[R_PC])
    IN  IF long_flag # 0
        THEN SetReg(s, R_PC, U16(s.reg[R_PC] + long_pc_offset))
        ELSE SetReg(s, R_PC, base)

do_JSR(f, i) ==
    LET long_flag == Low(Shr(i, 11), 1)
        s == SetReg(f, R_R7, f.reg[R_PC])
        long_pc_offset == sign_extend(Low(i, 11), 11)
        r1 == F6(i)
    IN  IF long_flag # 0
        THEN SetReg(s, R_PC, U16(s.reg[R_PC] + long_pc_offset))
        ELSE SetReg(s, R_PC, s.reg[r1])

do_LD(f, i, k) ==
    LET r0 == F9(i)
        pc_offset == sign_extend(Low(i, 9), 9)
        m == mem_read(f, U16(f.reg[R_PC] + pc_offset), k)
    IN  update_flags(SetReg(m, r0, m.val), r0)

do_LDI_direct(f, i, k, k2) ==
    LET r0 == F9(i)
        pc_offset == sign_extend(Low(i, 9), 9)
        m == mem_read(f, U16(f.reg[R_PC] + pc_offset), k)
    IN  update_flags(SetReg(m, r0, m.val), r0)

do_LDI(f, i, k, k2) ==
    LET r0 == F9(i)
        pc_offset == sign_extend(Low(i, 9), 9)
        p == mem_read(f, U16(f.reg[R_PC] + pc_offset), k)
        m == mem_read(p, p.val, k2)
    IN  update_flags(SetReg(m, r0, m.val), r0)

do_LDR(f, i, k) ==
    LET r0 == F9(i)
        r1 == F6(i)
        offset == sign_extend(Low(i, 6), 6)
        m == mem_read(f, U16(f.reg[r1] + offset), k)
    IN  update_flags(SetReg(m, r0, m.val), r0)

do_LEA_noflags(f, i) ==
    LET r0 == F9(i)
        pc_offset == sign_extend(Low(i, 9), 9)
    IN  SetReg(f, r0, U16(f.reg[R_PC] + pc_offset))

do_LEA(f, i) ==
    LET r0 == F9(i)
        pc_offset == sign_extend(Low(i, 9), 9)
    IN  update_flags(SetReg(f, r0, U16(f.reg[R_PC] + pc_offset)), r0)

do_ST(f, i) ==
    LET r0 == F9(i)
        pc_offset == sign_extend(Low(i, 9), 9)
    IN  mem_write(f, U16(f.reg[R_PC] + pc_offset), f.reg[r0])

do_STI(f, i, k) ==
    LET r0 == F9(i)
        pc_offset == sign_extend(Low(i, 9), 9)
        p == mem_read(f, U16(f.reg[R_PC] + pc_offset), k)
    IN  mem_write(p, p.val, p.reg[r0])

do_STR(f, i) ==
    LET r0 == F9(i)
        r1 == F6(i)
        offset == sign_extend(Low(i, 6), 6)
    IN  mem_write(f, U16(f.reg[r1] + offset), f.reg[r0])

\* case OP_RES, case OP_RTI, default: nothing is done before abort()
do_RES_r7(f) == SetReg(f, R_R7, f.reg[R_PC])

do_RES(f) == f

\* case OP_TRAP, before the inner switch: reg[R_R7] = reg[R_PC]
do_TRAP(f) == SetReg(f, R_R7, f.reg[R_PC])

TrapVect(i) == Low(i, 8)     \* instr & 0xFF

TrapCodes == {TRAP_GETC, TRAP_OUT, TRAP_PUTS, TRAP_IN, TRAP_PUTSP, TRAP_HALT}

\* reg[R_R0] = (uint16_t)getchar()
do_GETC(t) ==
    LET g == getchar(t.stdin)
    IN  [SetReg(t, R_R0, IntToU16(g.c)) EXCEPT
            !.stdin = g.rest,
            !.rd = [by |-> "GETC", c |-> g.c, lflag |-> tio]]

\* char c = getchar(); putc(c, stdout); reg[R_R0] = (uint16_t)c
do_IN(t, signedChar) ==
    LET g == getchar(t.stdin)
    IN  [SetReg(t, R_R0, CharToU16(g.c, signedChar)) EXCEPT
            !.stdin = g.rest,
            !.rd = [by |-> "IN", c |-> g.c, lflag |-> tio]]

\* uint16_t* c = mem + reg[R_R0]; while (*c) ++c;
\* the index at which the walk stops, MEM_MAX when it leaves the array
RECURSIVE WalkEnd(_, _)
WalkEnd(m, c) ==
    IF c >= MEM_MAX THEN MEM_MAX
    ELSE IF MemAt(m, c) = 0 THEN c
    ELSE WalkEnd(m, c + 1)

do_PUTS(t) == [t EXCEPT !.hi = Max(t.hi, WalkEnd(t.mem, t.reg[R_R0]))]

----------------------------------------------------------------------------
(* Initial state: main() at line 218, images loaded, terminal set up *)

\* instruction words an image places from PC_START
InstrPool ==
    { 1025,  2559,          \* BRz +1 ; BRn -1
      4133,  4159,  4608,   \* ADD R0,R0,#5 ; ADD R0,R0,#-1 ; ADD R1,R0,R0
      20543, 21505,         \* AND R0,R0,#-1 ; AND R2,R0,R1
      36927,                \* NOT R0,R0
      49152,                \* JMP R0
      20479, 16384, 16832,  \* JSR -1 ; JSRR R0 ; JSRR R7
      8704,                 \* LD R1,#0
      41472,                \* LDI R1,#0
      24639,                \* LDR R0,R0,#-1
      58879,                \* LEA R2,#-1
      12288,                \* ST R0,#0; also the address PC_START
      45056,                \* STI R0,#0
      28736,                \* STR R0,R1,#0
      61472, 61473, 61474, 61475, 61476, 61477,   \* TRAP x20 .. x25
      65024,                \* TRAP x00 (no such vector); also the address MR_KBSR
      32768, 53248 }        \* RTI ; reserved

\* words an image places at the last address, 0xFFFF
DataPool == {0, 65024, 65535}

\* the input streams of the host
Inputs == {<< >>, <<65>>}

\* the terminal modes main() can find on stdin
TermModes == {{ICANON, ECHO}, {}}

ImageMem(p, d) ==
    [a \in {PC_START + k : k \in {j \in DOMAIN p : p[j] # 0}}
           \cup (IF d # 0 THEN {MEM_MAX - 1} ELSE {})
       |-> IF a = MEM_MAX - 1 THEN d ELSE p[a - PC_START]]

\* reg[] is zeroed storage; reg[R_COND] = FL_ZRO; reg[R_PC] = PC_START
InitReg ==
    [r \in 0..(R_COUNT - 1) |->
        IF r = R_PC THEN PC_START ELSE IF r = R_COND THEN FL_ZRO ELSE 0]

Init ==
    /\ \E p \in [0..(ProgLen - 1) -> InstrPool], d \in DataPool : mem = ImageMem(p, d)
    /\ reg = InitReg
    /\ arg = << >>
    /\ ret = << >>
    /\ running = 1
    /\ proc = "live"
    /\ original_tio \in TermModes
    /\ tio = disable_input_buffering(original_tio)
    /\ stdin \in Inputs
    /\ instr = -1
    /\ lastread = NoRead
    /\ idxmax = -1
    /\ steps = 0

----------------------------------------------------------------------------
(* The execution loop *)

Live_after_interrupt ==
    proc \in {"live", "sigint"} /\ running = 1 /\ steps < MaxSteps

\* while(running), in a live process
Live == proc = "live" /\ running = 1 /\ steps < MaxSteps

restore_input_buffering == tio' = original_tio

\* the machine after the handler, and the instruction that was fetched
Store(c, i) ==
    /\ mem' = c.mem
    /\ reg' = c.reg
    /\ stdin' = c.stdin
    /\ lastread' = c.rd
    /\ idxmax' = c.hi
    /\ instr' = i
    /\ steps' = steps + 1
    /\ UNCHANGED <<original_tio, arg, ret>>

\* break out of the switch, restore_input_buffering(), next iteration
Break(c, i) ==
    /\ Store(c, i)
    /\ restore_input_buffering
    /\ UNCHANGED <<running, proc>>

case_OP_ADD ==
    /\ Live
    /\ \E k \in check_key(reg[R_PC]) :
         LET f == Fetch(Cur, k) IN
         Op(f.val) = OP_ADD /\ Break(do_ADD(f, f.val), f.val)

case_OP_AND ==
    /\ Live
    /\ \E k \in check_key(reg[R_PC]) :
         LET f == Fetch(Cur, k) IN
         Op(f.val) = OP_AND /\ Break(do_AND(f, f.val), f.val)

case_OP_NOT ==
    /\ Live
    /\ \E k \in check_key(reg[R_PC]) :
         LET f == Fetch(Cur, k) IN
         Op(f.val) = OP_NOT /\ Break(do_NOT(f, f.val), f.val)

case_OP_BR ==
    /\ Live
    /\ \E k \in check_key(reg[R_PC]) :
         LET f == Fetch(Cur, k) IN
         Op(f.val) = OP_BR /\ Break(do_BR(f, f.val), f.val)

case_OP_JMP ==
    /\ Live
    /\ \E k \in check_key(reg[R_PC]) :
         LET f == Fetch(Cur, k) IN
         Op(f.val) = OP_JMP /\ Break(do_JMP(f, f.val), f.val)

case_OP_JSR ==
    /\ Live
    /\ \E k \in check_key(reg[R_PC]) :
         LET f == Fetch(Cur, k) IN
         Op(f.val) = OP_JSR /\ Break(do_JSR(f, f.val), f.val)

case_OP_LD ==
    /\ Live
    /\ \E k \in check_key(reg[R_PC]) :
         LET f == Fetch(Cur, k) IN
         Op(f.val) = OP_LD /\ \E k2 \in BOOLEAN : Break(do_LD(f, f.val, k2), f.val)

case_OP_LDI ==
    /\ Live
    /\ \E k \in check_key(reg[R_PC]) :
         LET f == Fetch(Cur, k) IN
         Op(f.val) = OP_LDI
           /\ \E k2, k3 \in BOOLEAN : Break(do_LDI(f, f.val, k2, k3), f.val)

case_OP_LDR ==
    /\ Live
    /\ \E k \in check_key(reg[R_PC]) :
         LET f == Fetch(Cur, k) IN
         Op(f.val) = OP_LDR /\ \E k2 \in BOOLEAN : Break(do_LDR(f, f.val, k2), f.val)

case_OP_LEA ==
    /\ Live
    /\ \E k \in check_key(reg[R_PC]) :
         LET f == Fetch(Cur, k) IN
         Op(f.val) = OP_LEA /\ Break(do_LEA(f, f.val), f.val)

case_OP_ST ==
    /\ Live
    /\ \E k \in check_key(reg[R_PC]) :
         LET f == Fetch(Cur, k) IN
         Op(f.val) = OP_ST /\ Break(do_ST(f, f.val), f.val)

case_OP_STI ==
    /\ Live
    /\ \E k \in check_key(reg[R_PC]) :
         LET f == Fetch(Cur, k) IN
         Op(f.val) = OP_STI /\ \E k2 \in BOOLEAN : Break(do_STI(f, f.val, k2), f.val)

case_OP_STR ==
    /\ Live
    /\ \E k \in check_key(reg[R_PC]) :
         LET f == Fetch(Cur, k) IN
         Op(f.val) = OP_STR /\ Break(do_STR(f, f.val), f.val)

case_TRAP_GETC ==
    /\ Live
    /\ \E k \in check_key(reg[R_PC]) :
         LET f == Fetch(Cur, k) IN
         /\ Op(f.val) = OP_TRAP /\ TrapVect(f.val) = TRAP_GETC
         /\ Break(do_GETC(do_TRAP(f)), f.val)

\* putc((char)reg[R_R0], stdout); fflush(stdout)
case_TRAP_OUT ==
    /\ Live
    /\ \E k \in check_key(reg[R_PC]) :
         LET f == Fetch(Cur, k) IN
         /\ Op(f.val) = OP_TRAP /\ TrapVect(f.val) = TRAP_OUT
         /\ Break(do_TRAP(f), f.val)

\* the walk of PUTS and PUTSP; a walk that leaves mem[] reads whatever the
\* build placed behind the array: it finds a zero there, or the read faults
StringWalk(f) ==
    LET t == do_PUTS(do_TRAP(f)) IN
    \/ Break(t, f.val)
    \/ /\ t.hi >= MEM_MAX
       /\ Store(t, f.val)
       /\ proc' = "segv"
       /\ UNCHANGED <<running, tio>>

case_TRAP_PUTS ==
    /\ Live
    /\ \E k \in check_key(reg[R_PC]) :
         LET f == Fetch(Cur, k) IN
         /\ Op(f.val) = OP_TRAP /\ TrapVect(f.val) = TRAP_PUTS
         /\ StringWalk(f)

case_TRAP_IN ==
    /\ Live
    /\ \E k \in check_key(reg[R_PC]) :
         LET f == Fetch(Cur, k) IN
         /\ Op(f.val) = OP_TRAP /\ TrapVect(f.val) = TRAP_IN
         /\ \E signedChar \in BOOLEAN : Break(do_IN(do_TRAP(f), signedChar), f.val)

case_TRAP_PUTSP ==
    /\ Live
    /\ \E k \in check_key(reg[R_PC]) :
         LET f == Fetch(Cur, k) IN
         /\ Op(f.val) = OP_TRAP /\ TrapVect(f.val) = TRAP_PUTSP
         /\ StringWalk(f)

\* puts("HALT"); running = 0
case_TRAP_HALT ==
    /\ Live
    /\ \E k \in check_key(reg[R_PC]) :
         LET f == Fetch(Cur, k) IN
         /\ Op(f.val) = OP_TRAP /\ TrapVect(f.val) = TRAP_HALT
         /\ Store(do_TRAP(f), f.val)
         /\ running' = 0
         /\ restore_input_buffering
         /\ UNCHANGED proc

\* the inner switch has no case for the vector and no default
case_TRAP_nocase ==
    /\ Live
    /\ \E k \in check_key(reg[R_PC]) :
         LET f == Fetch(Cur, k) IN
         /\ Op(f.val) = OP_TRAP /\ TrapVect(f.val) \notin TrapCodes
         /\ Break(do_TRAP(f), f.val)

\* case OP_RES: case OP_RTI: default: abort()
case_OP_RES_RTI ==
    /\ Live
    /\ \E k \in check_key(reg[R_PC]) :
         LET f == Fetch(Cur, k) IN
         /\ Op(f.val) \in {OP_RES, OP_RTI}
         /\ Store(do_RES(f), f.val)
         /\ proc' = "abort"
         /\ UNCHANGED <<running, tio>>

\* the loop condition fails; main() returns
main_return ==
    /\ proc = "live" /\ running = 0
    /\ proc' = "exit"
    /\ UNCHANGED <<mem, reg, running, tio, original_tio, stdin, instr, lastread,
                   idxmax, steps, arg, ret>>

\* SIGINT: restore_input_buffering(); printf("\n"); exit(-2)
handle_interrupt ==
    /\ proc = "live"
    /\ restore_input_buffering
    /\ proc' = "sigint"
    /\ UNCHANGED <<mem, reg, running, original_tio, stdin, instr, lastread,
                   idxmax, steps, arg, ret>>

Next ==
    \/ case_OP_ADD
    \/ case_OP_AND
    \/ case_OP_NOT
    \/ case_OP_BR
    \/ case_OP_JMP
    \/ case_OP_JSR
    \/ case_OP_LD
    \/ case_OP_LDI
    \/ case_OP_LDR
    \/ case_OP_LEA
    \/ case_OP_ST
    \/ case_OP_STI
    \/ case_OP_STR
    \/ case_TRAP_GETC
    \/ case_TRAP_OUT
    \/ case_TRAP_PUTS
    \/ case_TRAP_IN
    \/ case_TRAP_PUTSP
    \/ case_TRAP_HALT
    \/ case_TRAP_nocase
    \/ case_OP_RES_RTI
    \/ main_return
    \/ handle_interrupt

Spec == Init /\ [][Next]_vars

----------------------------------------------------------------------------
(* sign_extend called on its own, then once more on its result at width 16 *)

BitCounts == {5, 6, 9, 11}

\* what the machine variables hold while a function is exercised on its own
Idle(m) ==
    /\ mem = m
    /\ reg = InitReg
    /\ running = 1
    /\ proc = "live"
    /\ original_tio = {ICANON, ECHO}
    /\ tio = disable_input_buffering(original_tio)
    /\ stdin = << >>
    /\ instr = -1
    /\ lastread = NoRead
    /\ idxmax = -1
    /\ steps = 0

InitSE ==
    /\ Idle(ImageMem([k \in {0} |-> 61477], 0))
    /\ arg \in [x : 0..(WORD - 1), bit_count : BitCounts]
    /\ ret = << >>

call_sign_extend ==
    /\ Len(ret) = 0
    /\ ret' = <<sign_extend(arg.x, arg.bit_count)>>
    /\ UNCHANGED <<mem, reg, running, proc, tio, original_tio, stdin, instr,
                   lastread, idxmax, steps, arg>>

\* 0xFFFF << 16 is evaluated in int, and the conversion to uint16_t drops it
call_sign_extend_16 ==
    /\ Len(ret) = 1
    /\ ret' = Append(ret, sign_extend(ret[1], 16))
    /\ UNCHANGED <<mem, reg, running, proc, tio, original_tio, stdin, instr,
                   lastread, idxmax, steps, arg>>

NextSE == call_sign_extend \/ call_sign_extend_16

SpecSE == InitSE /\ [][NextSE]_vars

----------------------------------------------------------------------------
(* update_flags called on its own: a register is set, then update_flags(r) *)

InitUF ==
    /\ Idle(ImageMem([k \in {0} |-> 61477], 65535))
    /\ arg \in [r : R_R0..R_R7, v : 0..(WORD - 1)]
    /\ ret = << >>

set_register ==
    /\ Len(ret) = 0
    /\ reg' = [reg EXCEPT ![arg.r] = arg.v]
    /\ ret' = <<"set">>
    /\ UNCHANGED <<mem, running, proc, tio, original_tio, stdin, instr,
                   lastread, idxmax, steps, arg>>

call_update_flags ==
    /\ Len(ret) = 1
    /\ LET c == update_flags(Cur, arg.r) IN
         /\ mem' = c.mem
         /\ reg' = c.reg
    /\ ret' = Append(ret, "update_flags")
    /\ UNCHANGED <<running, proc, tio, original_tio, stdin, instr,
                   lastread, idxmax, steps, arg>>

NextUF == set_register \/ call_update_flags

SpecUF == InitUF /\ [][NextUF]_vars

----------------------------------------------------------------------------
(* Properties *)

\* this step is one iteration of the execution loop
Executed == steps' = steps + 1

\* the loop goes on to fetch another instruction
Looping == proc = "live" /\ running = 1

UndefinedTrap(i) == Op(i) = OP_TRAP /\ TrapVect(i) \notin TrapCodes

\* the condition flag of a word: zero, bit 15 set, or neither
FlagOf(v) == IF v = 0 THEN FL_ZRO ELSE IF v >= 32768 THEN FL_NEG ELSE FL_POS

\* only PC has changed, by the fetch increment
OnlyFetchIncrement ==
    reg' = [reg EXCEPT ![R_PC] = (reg[R_PC] + 1) % WORD]

\* C1: a TRAP whose vector is none of x20..x25 is fatal: the loop stops at
\* once and the instruction leaves registers (but for the fetch increment of
\* PC) and memory as they were.
C1_UndefinedTrapIsFatal ==
    [][(Executed /\ UndefinedTrap(instr'))
          => (~Looping' /\ proc' = "abort" /\ OnlyFetchIncrement /\ mem' = mem)]_vars

\* C2: the condition-flags register always holds exactly one of POSITIVE,
\* ZERO, NEGATIVE.
C2_ExactlyOneFlag == reg[R_COND] \in {FL_POS, FL_ZRO, FL_NEG}

C2_Witness == steps > 0 /\ reg[R_COND] = FL_NEG

\* C3: ADD, AND, NOT, LD, LDI, LDR and LEA leave the flags set from the final
\* value of their destination register; every other instruction, and every
\* other step, leaves the flags unchanged.
FlagSetters == {OP_ADD, OP_AND, OP_NOT, OP_LD, OP_LDI, OP_LDR, OP_LEA}

C3_FlagsOnlyByRule ==
    [][IF Executed /\ Op(instr') \in FlagSetters
       THEN reg'[R_COND] = FlagOf(reg'[F9(instr')])
       ELSE reg'[R_COND] = reg[R_COND]]_vars

C3_Witness ==
    /\ instr # -1 /\ Op(instr) = OP_LEA
    /\ reg[R_COND] = FL_POS /\ reg[F9(instr)] # 0

\* C4 (as claimed): a reserved or RTI opcode ends the run; registers, flags
\* and all of memory are as before the fetch, only PC has moved by 1.
C4_ReservedOpcodeNoEffect ==
    [][(Executed /\ Op(instr') \in {OP_RTI, OP_RES})
          => (proc' = "abort" /\ OnlyFetchIncrement /\ mem' = mem)]_vars

\* C4 (amended): a reserved or RTI opcode ends the run; registers and flags
\* are as before the fetch, only PC has moved by 1; memory is as before the
\* fetch except that a fetch from the keyboard-status address 0xFE00 may have
\* rewritten the words at 0xFE00 and 0xFE02.
C4_ReservedOpcodeNoEffectButFetch ==
    [][(Executed /\ Op(instr') \in {OP_RTI, OP_RES})
          => /\ proc' = "abort"
             /\ OnlyFetchIncrement
             /\ \A a \in (DOMAIN mem) \cup (DOMAIN mem') :
                   MemAt(mem', a) # MemAt(mem, a)
                      => (reg[R_PC] = MR_KBSR /\ a \in {MR_KBSR, MR_KBDR})]_vars

C4_Witness ==
    /\ proc = "abort" /\ Op(instr) = OP_RES
    /\ reg[R_R0] # 0 /\ reg[R_COND] = FL_NEG

\* an n-bit field and a 16-bit word read as two's-complement numbers
SignedN(v, n) ==
    LET low == v % (2 ^ n) IN IF low >= 2 ^ (n - 1) THEN low - 2 ^ n ELSE low

Signed16(w) == IF w >= 32768 THEN w - WORD ELSE w

SignExtendAgrees ==
    /\ Len(ret) >= 1 => Signed16(ret[1]) = SignedN(arg.x, arg.bit_count)
    /\ Len(ret) >= 2 => ret[2] = ret[1]

\* C5 (as claimed): for every 16-bit v and n in {5, 6, 9, 11}, sign_extend(v, n)
\* read as two's complement equals the low n bits of v read as an n-bit
\* two's-complement number, and extending it again at width 16 changes nothing.
C5_SignExtendAnyWord == SignExtendAgrees

\* C5 (amended): the same, for every v whose bits above the low n are zero
\* (v < 2^n), which is how every call site passes the field.
C5_SignExtendField == arg.x < 2 ^ arg.bit_count => SignExtendAgrees

C5_Witness ==
    /\ Len(ret) = 2 /\ arg.x < 2 ^ arg.bit_count
    /\ ret[1] >= 32768 /\ arg.bit_count = 9

\* C6: after register r is set to v, update_flags(r) leaves the flags ZERO iff
\* v = 0, NEGATIVE iff bit 15 of v is 1, POSITIVE otherwise, and changes no
\* other register and no memory word.
C6_UpdateFlags ==
    [][Len(ret') = 2
          => /\ reg'[R_COND] = FL_ZRO <=> arg.v = 0
             /\ reg'[R_COND] = FL_NEG <=> (arg.v \div 32768) % 2 = 1
             /\ reg'[R_COND] = FL_POS <=> (arg.v # 0 /\ (arg.v \div 32768) % 2 = 0)
             /\ \A r \in 0..(R_COUNT - 1) : r # R_COND => reg'[r] = reg[r]
             /\ reg[arg.r] = arg.v
             /\ mem' = mem]_vars

C6_Witness ==
    /\ Len(ret) = 2 /\ arg.r = R_R7 /\ arg.v = 32768 /\ reg[R_COND] = FL_NEG

\* C7: every access to mem[] made by an instruction is at an index inside
\* 0x0000..0xFFFF, the string walks of PUTS and PUTSP included.
C7_AccessInRange == idxmax < MEM_MAX

\* C8: when getchar() returns end-of-stream in TRAP GETC or TRAP IN, the
\* loop terminates and no further instruction is executed.
C8_InputFailureIsFatal ==
    (lastread.by \in {"GETC", "IN"} /\ lastread.c = EOF) => ~Looping

\* C9: whenever TRAP GETC reads, the terminal is in the non-echoing,
\* unbuffered mode set before the loop started.
C9_GetcNeverEchoes ==
    lastread.by = "GETC" => (ECHO \notin lastread.lflag /\ ICANON \notin lastread.lflag)

\* C10: an instruction ends the loop only if it is the HALT trap, an undefined
\* opcode or an undefined trap vector, every other instruction leaves it
\* running; and once HALT has executed nothing is fetched and registers and
\* memory stay as they are.
HaltExecuted == instr # -1 /\ Op(instr) = OP_TRAP /\ TrapVect(instr) = TRAP_HALT

C10_LoopEndsOnlyByHaltOrDecodeError ==
    [][/\ Executed =>
            (~Looping' => \/ (Op(instr') = OP_TRAP /\ TrapVect(instr') = TRAP_HALT)
                          \/ Op(instr') \in {OP_RTI, OP_RES}
                          \/ UndefinedTrap(instr'))
       /\ HaltExecuted => (~Executed /\ reg' = reg /\ mem' = mem)]_vars

----------------------------------------------------------------------------
(* SIGINT delivered while an instruction is under way: the handler runs on   *)
(* the state the interrupted handler has reached, and exit(-2) ends it there *)

Interrupted(c, i) ==
    /\ mem' = c.mem
    /\ reg' = c.reg
    /\ stdin' = c.stdin
    /\ lastread' = c.rd
    /\ idxmax' = c.hi
    /\ instr' = i
    /\ restore_input_buffering
    /\ proc' = "sigint"
    /\ UNCHANGED <<running, steps, original_tio, arg, ret>>

\* the signal arrives after FETCH, before the switch
handle_interrupt_after_fetch ==
    /\ Live
    /\ \E k \in check_key(reg[R_PC]) :
         LET f == Fetch(Cur, k) IN Interrupted(f, f.val)

\* the signal arrives while TRAP GETC or TRAP IN waits in getchar()
handle_interrupt_in_getchar ==
    /\ Live
    /\ \E k \in check_key(reg[R_PC]) :
         LET f == Fetch(Cur, k) IN
         /\ Op(f.val) = OP_TRAP /\ TrapVect(f.val) \in {TRAP_GETC, TRAP_IN}
         /\ Interrupted(do_TRAP(f), f.val)

NextINT ==
    \/ Next
    \/ handle_interrupt_after_fetch
    \/ handle_interrupt_in_getchar

SpecINT == Init /\ [][NextINT]_vars

\* C11: once a shutdown request (SIGINT) has been serviced, whether it came
\* between two instructions or during one, no memory word and no register
\* changes any more and no further instruction is fetched.
C11_NothingAfterInterrupt ==
    [][proc = "sigint"
          => (mem' = mem /\ reg' = reg /\ instr' = instr /\ steps' = steps)]_vars

C11_Witness ==
    /\ proc = "sigint" /\ steps >= 1
    /\ instr # -1 /\ Op(instr) = OP_TRAP /\ TrapVect(instr) = TRAP_GETC
    /\ reg[R_R7] = reg[R_PC] /\ lastread.by = "none"

----------------------------------------------------------------------------
(* The machine started on an image that also places words at the keyboard *)
(* registers                                                              *)

\* words an image places at MR_KBSR and at MR_KBDR
KbPool == {65, 32768}

InitKB ==
    /\ \E p \in [0..(ProgLen - 1) -> InstrPool], s \in KbPool, t \in KbPool :
         mem = MemStore(MemStore(ImageMem(p, MR_KBSR), MR_KBSR, s), MR_KBDR, t)
    /\ reg = InitReg
    /\ arg = << >>
    /\ ret = << >>
    /\ running = 1
    /\ proc = "live"
    /\ original_tio = {ICANON, ECHO}
    /\ tio = disable_input_buffering(original_tio)
    /\ stdin \in Inputs
    /\ instr = -1
    /\ lastread = NoRead
    /\ idxmax = -1
    /\ steps = 0

SpecKB == InitKB /\ [][Next]_vars

\* where a BR at address a leaves PC: past the instruction, plus the signed
\* 9-bit offset when the mask meets the flags
BranchTarget(a, i, flags) ==
    IF BitAnd(F9(i), flags) # 0
    THEN (a + 1 + SignedN(Low(i, 9), 9) + WORD) % WORD
    ELSE (a + 1) % WORD

BranchSetsOnlyPC ==
    reg' = [reg EXCEPT ![R_PC] = BranchTarget(reg[R_PC], instr', reg[R_COND])]

\* C12 (as claimed): a BR leaves PC at the branch target when its mask meets
\* the flags and at the next address otherwise; R0..R7, the flags and all of
\* memory are unchanged.
C12_BranchChangesOnlyPC ==
    [][(Executed /\ Op(instr') = OP_BR) => (BranchSetsOnlyPC /\ mem' = mem)]_vars

\* C12 (amended): the same for PC, R0..R7 and the flags; memory is unchanged
\* except that a BR fetched from the keyboard-status address 0xFE00 leaves the
\* word at 0xFE00 rewritten by that fetch.
C12_BranchChangesOnlyPCButFetch ==
    [][(Executed /\ Op(instr') = OP_BR)
          => /\ BranchSetsOnlyPC
             /\ \A a \in (DOMAIN mem) \cup (DOMAIN mem') :
                   MemAt(mem', a) # MemAt(mem, a)
                      => (reg[R_PC] = MR_KBSR /\ a = MR_KBSR)]_vars

\* BRn -1 taken: PC is back on the BR
C12_Witness ==
    /\ instr = 2559 /\ steps = 2
    /\ reg[R_COND] = FL_NEG /\ reg[R_PC] = PC_START + 1

\* C13: after every JSR, in long mode and in register mode alike, R7 is the
\* address of the JSR plus 1 (mod 2^16).
C13_JsrSavesReturnAddress ==
    [][(Executed /\ Op(instr') = OP_JSR) => reg'[R_R7] = (reg[R_PC] + 1) % WORD]_vars

\* the register-mode JSR at 0x3001 has saved 0x3002 and jumped through R0
C13_Witness ==
    /\ instr = 16384 /\ steps = 2
    /\ reg[R_R7] = PC_START + 2 /\ reg[R_PC] = reg[R_R0]
    /\ reg[R_PC] # PC_START + 2

\* C20: a register-mode JSR writes R7 before it reads the base register: with
\* base R0..R6, PC afterwards is what that register held before; with base R7,
\* PC afterwards is the address of the JSR plus 1 and the old R7 is lost.
C20_JsrrWritesR7First ==
    [][(Executed /\ Op(instr') = OP_JSR /\ Low(Shr(instr', 11), 1) = 0)
          => /\ reg'[R_R7] = (reg[R_PC] + 1) % WORD
             /\ reg'[R_PC] = IF F6(instr') = R_R7
                             THEN (reg[R_PC] + 1) % WORD
                             ELSE reg[F6(instr')]]_vars

\* JSRR R7 at 0x3001 after ADD R0,R0,#5: R7 held 0, PC is 0x3002
C20_Witness ==
    /\ instr = 16832 /\ steps = 2
    /\ MemAt(mem, PC_START) = 4133
    /\ reg[R_PC] = PC_START + 2 /\ reg[R_R7] = PC_START + 2

\* the address a PC-relative instruction at reg[R_PC] names with its 9-bit
\* offset field: PC after the fetch increment plus the signed offset
PCRelative(i) == (reg[R_PC] + 1 + SignedN(Low(i, 9), 9) + WORD) % WORD

FlagsFromDR(i) == reg'[R_COND] = FlagOf(reg'[F9(i)])

\* C14 (as claimed): for every memory content and every offset field K, LDI
\* sets DR to Memory[Memory[PC + sext9(K)]] and LD sets DR to
\* Memory[PC + sext9(K)], PC being the value after the fetch increment; both
\* then set the flags from DR.
C14_LdiIndirectLdDirect ==
    [][Executed =>
         /\ Op(instr') = OP_LDI
               => /\ reg'[F9(instr')] = MemAt(mem, MemAt(mem, PCRelative(instr')))
                  /\ FlagsFromDR(instr')
         /\ Op(instr') = OP_LD
               => /\ reg'[F9(instr')] = MemAt(mem, PCRelative(instr'))
                  /\ FlagsFromDR(instr')]_vars

\* C14 (amended): the same, provided no address the instruction reads is the
\* keyboard-status address 0xFE00; the flags are set from DR in every case.
C14_LdiIndirectLdDirectOffKeyboard ==
    [][Executed =>
         /\ Op(instr') = OP_LDI
               => /\ (PCRelative(instr') # MR_KBSR
                        /\ MemAt(mem, PCRelative(instr')) # MR_KBSR)
                       => reg'[F9(instr')] = MemAt(mem, MemAt(mem, PCRelative(instr')))
                  /\ FlagsFromDR(instr')
         /\ Op(instr') = OP_LD
               => /\ PCRelative(instr') # MR_KBSR
                       => reg'[F9(instr')] = MemAt(mem, PCRelative(instr'))
                  /\ FlagsFromDR(instr')]_vars

\* LDI R1,#0 at 0x3000 with 0x3000 stored at 0x3001: R1 is the word at 0x3000,
\* the LDI itself, and not the word at 0x3001
C14_Witness ==
    /\ instr = 41472 /\ steps = 1
    /\ MemAt(mem, PC_START + 1) = PC_START
    /\ reg[R_R0 + 1] = 41472 /\ reg[R_COND] = FL_NEG

\* an LDI whose pointer word, stored off the keyboard registers, is 0xFE00:
\* DR receives what the read of the keyboard-status address returns
ReadsKeyboardStatus ==
    /\ Executed /\ Op(instr') = OP_LDI
    /\ PCRelative(instr') # MR_KBSR
    /\ MemAt(mem, PCRelative(instr')) = MR_KBSR

\* the read found a character: bit 15 set, the character is in 0xFE02
StatusReady(v) ==
    /\ v >= 32768
    /\ stdin # << >>
    /\ MemAt(mem', MR_KBDR) = Head(stdin)

\* C15: a read of 0xFE00 returns 0 when no input character is pending; when
\* one is pending it returns a value with bit 15 set and 0xFE02 then holds
\* that character, whatever was stored at 0xFE00 or 0xFE02 before.  At end of
\* input no character is pending.
C15_KeyboardStatusRead ==
    [][ReadsKeyboardStatus
          => \/ reg'[F9(instr')] = 0
             \/ StatusReady(reg'[F9(instr')])]_vars

\* the same with the end-of-input case left out
C15_KeyboardStatusReadBeforeEof ==
    [][(ReadsKeyboardStatus /\ stdin # << >>)
          => \/ reg'[F9(instr')] = 0 /\ stdin' = stdin
             \/ StatusReady(reg'[F9(instr')]) /\ stdin' = Tail(stdin)]_vars

----------------------------------------------------------------------------
(* read_image_file called on its own on zeroed memory.  The file is its     *)
(* bytes, an even number of them and at least the two of the origin; the    *)
(* host stores a uint16_t low byte first or high byte first.                *)

\* the uint16_t the host finds in two bytes that fread has copied
HostWord(b0, b1, littleEndian) ==
    IF littleEndian THEN b0 + Shl(b1, 8) ELSE Shl(b0, 8) + b1

\* network to host order: the bytes swapped on a little-endian host
ntohs(x, littleEndian) ==
    IF littleEndian THEN U16(BitOr(Shl16(x, 8), Shr(x, 8))) ELSE x

Min(a, b) == IF a <= b THEN a ELSE b

read_image_file(m, file, littleEndian) ==
    LET origin == ntohs(HostWord(file[1], file[2], littleEndian), littleEndian)
        max_read == U16(MEM_MAX - origin)
        read == Min(max_read, (Len(file) - 2) \div 2)
        p(a) == LET j == a - origin
                IN  ntohs(HostWord(file[3 + 2 * j], file[4 + 2 * j], littleEndian),
                          littleEndian)
        written == {origin + j : j \in 0..(read - 1)}
    IN  [mem |-> [a \in ((DOMAIN m) \ written) \cup {w \in written : p(w) # 0}
                    |-> IF a \in written THEN p(a) ELSE m[a]],
         read |-> read]

\* the words image files are made of
ImageWords == {0, 4133, 61477}
Origins == {0, 1, PC_START, MEM_MAX - 2, MEM_MAX - 1}

\* an image file: each word high byte first, the origin before the body
RECURSIVE FileBytes(_)
FileBytes(ws) ==
    IF ws = << >> THEN << >>
    ELSE <<Shr(Head(ws), 8), Low(Head(ws), 8)>> \o FileBytes(Tail(ws))

Bodies == UNION {[1..n -> ImageWords] : n \in 0..MaxImage}

InitLoad ==
    /\ mem = << >>
    /\ reg = [r \in 0..(R_COUNT - 1) |-> 0]
    /\ running = 1
    /\ proc = "live"
    /\ original_tio = {ICANON, ECHO}
    /\ tio = original_tio
    /\ stdin = << >>
    /\ instr = -1
    /\ lastread = NoRead
    /\ idxmax = -1
    /\ steps = 0
    /\ \E o \in Origins, b \in Bodies, le \in BOOLEAN :
         arg = [file |-> FileBytes(<<o>> \o b), littleEndian |-> le]
    /\ ret = << >>

call_read_image_file ==
    /\ ret = << >>
    /\ LET r == read_image_file(mem, arg.file, arg.littleEndian)
       IN  mem' = r.mem /\ ret' = <<r.read>>
    /\ UNCHANGED <<reg, running, proc, tio, original_tio, stdin, instr,
                   lastread, idxmax, steps, arg>>

NextLoad == call_read_image_file

SpecLoad == InitLoad /\ [][NextLoad]_vars

\* the n-th 16-bit word of the file, counted from 0, high byte first
FileWord(n) == arg.file[2 * n + 1] * 256 + arg.file[2 * n + 2]

\* C16: after the load of an image with origin O, the i-th word after the
\* origin is at address O + i, for every i with O + i <= 0xFFFF and every O,
\* origin 0x0000 included.
C16_ImageStoredFromOrigin ==
    ret # << >>
       => \A i \in 0..((Len(arg.file) \div 2) - 2) :
             FileWord(0) + i <= MEM_MAX - 1
                => MemAt(mem, FileWord(0) + i) = FileWord(i + 1)

\* the same for every origin but 0x0000
C16_ImageStoredFromNonZeroOrigin ==
    (ret # << >> /\ FileWord(0) # 0)
       => \A i \in 0..((Len(arg.file) \div 2) - 2) :
             FileWord(0) + i <= MEM_MAX - 1
                => MemAt(mem, FileWord(0) + i) = FileWord(i + 1)

----------------------------------------------------------------------------
(* The machine left to run: the process is scheduled until it ends *)

\* the images of Init that begin with ADD R0,R0,#5 and place nothing at
\* 0xFFFF, run on a raw terminal
InitRun ==
    /\ \E p \in [0..(ProgLen - 1) -> InstrPool] :
         p[0] = 4133 /\ mem = ImageMem(p, 0)
    /\ reg = InitReg
    /\ arg = << >>
    /\ ret = << >>
    /\ running = 1
    /\ proc = "live"
    /\ original_tio = {}
    /\ tio = disable_input_buffering(original_tio)
    /\ stdin \in Inputs
    /\ instr = -1
    /\ lastread = NoRead
    /\ idxmax = -1
    /\ steps = 0

SpecRun == InitRun /\ [][Next]_vars /\ WF_vars(Next)

\* ADD R0,R0,#5 at 0x3000 and TRAP HALT at 0x3001
AddThenHaltLoaded ==
    MemAt(mem, PC_START) = 4133 /\ MemAt(mem, PC_START + 1) = 61477

AddThenHaltStages ==
    /\ steps = 0 => reg = InitReg /\ running = 1
    /\ steps = 1 => /\ instr = 4133 /\ running = 1
                    /\ reg[R_R0] = 5 /\ reg[R_COND] = FL_POS
    /\ steps >= 2 => /\ steps = 2 /\ HaltExecuted /\ running = 0
                     /\ reg[R_R0] = 5 /\ reg[R_COND] = FL_POS

\* C17: from the initial state with ADD R0,R0,#5 at 0x3000 and TRAP HALT at
\* 0x3001 the run ends, and unless SIGINT ends it first it ends by the HALT
\* trap after the two instructions, with R0 = 5 and the flags POSITIVE.
C17_AddThenHalt ==
    /\ [](AddThenHaltLoaded => AddThenHaltStages)
    /\ (AddThenHaltLoaded /\ steps = 0) ~> (proc \in {"exit", "sigint"})
    /\ [](AddThenHaltLoaded /\ proc = "exit"
             => HaltExecuted /\ reg[R_R0] = 5 /\ reg[R_COND] = FL_POS)

C17_Witness ==
    /\ AddThenHaltLoaded /\ proc = "exit" /\ steps = 2
    /\ HaltExecuted /\ reg[R_R0] = 5 /\ reg[R_COND] = FL_POS

----------------------------------------------------------------------------
(* The ADD and AND handlers called on their own: SR1 = R1 and SR2 = R2 hold *)
(* the operands, DR = R0                                                    *)

\* ADD R0,R1,#-1   AND R0,R1,#-1: every 16-bit SR1 value
AllOnesImmediate == {4223, 20607}
\* ADD R0,R1,R2   AND R0,R1,R2   ADD R0,R1,#15   ADD R0,R1,#-16   AND R0,R1,#15
OtherModes == {4162, 20546, 4207, 4208, 20591}
Operands == {0, 1, 2, 5, 255, 256, 32767, 32768, 32769, 65534, 65535}

InitALU ==
    /\ arg \in [i : AllOnesImmediate, x : 0..(WORD - 1), y : {0}]
               \cup [i : OtherModes, x : Operands, y : Operands]
    /\ Idle(ImageMem([k \in {0} |-> arg.i], 0))
    /\ ret = << >>

set_operands ==
    /\ ret = << >>
    /\ reg' = [reg EXCEPT ![R_R0 + 1] = arg.x, ![R_R0 + 2] = arg.y]
    /\ ret' = <<"set">>
    /\ UNCHANGED <<mem, running, proc, tio, original_tio, stdin, instr,
                   lastread, idxmax, steps, arg>>

call_do_ADD ==
    /\ ret = <<"set">> /\ Op(arg.i) = OP_ADD
    /\ LET c == do_ADD(Cur, arg.i) IN mem' = c.mem /\ reg' = c.reg
    /\ ret' = Append(ret, "ADD")
    /\ UNCHANGED <<running, proc, tio, original_tio, stdin, instr,
                   lastread, idxmax, steps, arg>>

call_do_AND ==
    /\ ret = <<"set">> /\ Op(arg.i) = OP_AND
    /\ LET c == do_AND(Cur, arg.i) IN mem' = c.mem /\ reg' = c.reg
    /\ ret' = Append(ret, "AND")
    /\ UNCHANGED <<running, proc, tio, original_tio, stdin, instr,
                   lastread, idxmax, steps, arg>>

NextALU == set_operands \/ call_do_ADD \/ call_do_AND

SpecALU == InitALU /\ [][NextALU]_vars

\* the second operand of the instruction arg.i: the 5-bit field as a signed
\* number, as a 16-bit word, in immediate mode; SR2 otherwise
ImmediateMode == Low(Shr(arg.i, 5), 1) = 1
Operand2 ==
    IF ImmediateMode THEN (SignedN(Low(arg.i, 5), 5) + WORD) % WORD ELSE arg.y

\* C18: in immediate mode the 5-bit field is sign-extended, so the all-ones
\* field is the operand 0xFFFF: ADD gives DR = (x + 0xFFFF) mod 2^16 and AND
\* gives DR = x for every SR1 value x; in every mode ADD gives
\* DR = (SR1 + operand) mod 2^16.
C18_ImmediateSignExtendedAddWraps ==
    Len(ret) = 2
       => /\ Op(arg.i) = OP_ADD => reg[R_R0] = (arg.x + Operand2) % WORD
          /\ (ImmediateMode /\ Low(arg.i, 5) = 31)
                => /\ Operand2 = 65535
                   /\ Op(arg.i) = OP_ADD => reg[R_R0] = (arg.x + 65535) % WORD
                   /\ Op(arg.i) = OP_AND => reg[R_R0] = arg.x

\* ADD R0,R1,#-1 with R1 = 5 has left 4 in R0
C18_Witness ==
    /\ Len(ret) = 2 /\ arg.i = 4223 /\ arg.x = 5
    /\ reg[R_R0] = 4 /\ reg[R_R0 + 1] = 5

\* the address LDR and STR name: base register plus the signed 6-bit offset
BaseOffset(i) == (reg[F6(i)] + SignedN(Low(i, 6), 6) + WORD) % WORD

\* the instruction executed by this step reads the keyboard-status address:
\* by its fetch, or as a word LD, LDI, LDR or STI reads
ReadsKBSR(i) ==
    \/ reg[R_PC] = MR_KBSR
    \/ Op(i) \in {OP_LD, OP_LDI, OP_STI} /\ PCRelative(i) = MR_KBSR
    \/ Op(i) = OP_LDI /\ MemAt(mem, PCRelative(i)) = MR_KBSR
    \/ Op(i) = OP_LDR /\ BaseOffset(i) = MR_KBSR

\* the word ST, STI or STR writes; the pointer of an STI is itself read, and
\* read at 0xFE00 it is the keyboard status that read has left there
StoreTarget(i) ==
    IF Op(i) = OP_ST THEN {PCRelative(i)}
    ELSE IF Op(i) = OP_STR THEN {BaseOffset(i)}
    ELSE IF Op(i) = OP_STI
         THEN {IF PCRelative(i) # MR_KBSR THEN MemAt(mem, PCRelative(i))
                                          ELSE MemAt(mem', MR_KBSR)}
    ELSE {}

ChangedWords ==
    {a \in (DOMAIN mem) \cup (DOMAIN mem') : MemAt(mem', a) # MemAt(mem, a)}

\* C19: addresses other than 0xFE00 are passive storage.  A fetch, LD or LDR
\* of an address other than 0xFE00 returns the word stored there; a word of
\* memory changes only as the target of ST, STI or STR, which then holds the
\* source register, or as the word at 0xFE00 or 0xFE02 in a step that reads
\* 0xFE00; a step that executes no instruction changes no word.
C19_PassiveStorage ==
    [][/\ ~Executed => mem' = mem
       /\ Executed =>
            /\ reg[R_PC] # MR_KBSR => instr' = MemAt(mem, reg[R_PC])
            /\ (Op(instr') = OP_LD /\ PCRelative(instr') # MR_KBSR)
                  => reg'[F9(instr')] = MemAt(mem, PCRelative(instr'))
            /\ (Op(instr') = OP_LDR /\ BaseOffset(instr') # MR_KBSR)
                  => reg'[F9(instr')] = MemAt(mem, BaseOffset(instr'))
            /\ \A t \in StoreTarget(instr') : MemAt(mem', t) = reg[F9(instr')]
            /\ \A a \in ChangedWords :
                  \/ a \in StoreTarget(instr')
                  \/ a \in {MR_KBSR, MR_KBDR} /\ ReadsKBSR(instr')]_vars

\* STI R0,#0 at 0x3000 through the pointer 0xFE00 stored at 0x3001: the word
\* the image had put at 0xFE00 is replaced by R0 = 0, the one at 0xFE02 stays
C19_Witness ==
    /\ instr = 45056 /\ steps = 1
    /\ MemAt(mem, PC_START + 1) = MR_KBSR
    /\ MemAt(mem, MR_KBSR) = 0 /\ reg[R_R0] = 0
    /\ MemAt(mem, MR_KBDR) = 65

====
